---- MODULE Spec2Model ----
(***************************************************************************)
(* Subtitle/playback synchronisation of the play page (PlayPage.tsx, first *)
(* variant, lines 1-834) and the subtitle-index persistence hook           *)
(* (useSubtitleIndexPersist.ts).                                           *)
(*                                                                         *)
(* Times are milliseconds on a coarse grid.  The media element keeps its   *)
(* position in seconds; the model keeps that position as the exact         *)
(* rational ms/1000, represented by the numerator ms.                      *)
(***************************************************************************)
EXTENDS Integers, Sequences, FiniteSets, TLC

VARIABLES
    lifecycle,              \* "mounted" | "unmounted": videoRef.current is set while mounted
    subtitle,               \* useState subtitle: the entries of the track
    currentSubtitleIndex,   \* useState currentSubtitleIndex
    playMode,               \* useState playMode
    isPlaying,              \* useState isPlaying (set by the play / pause events)
    editMode,               \* useState editMode
    editedTime,             \* useState editedTime {startTime, endTime}
    editedText,             \* useState editedText
    recordingMode,          \* useState recordingMode
    isSeeking,              \* useRef isSeeking
    currentTime,            \* media element: position (ms)
    paused,                 \* media element: paused attribute
    seekEvt,                \* media element: seek notification still to deliver
    rafQueue,               \* callbacks handed to requestAnimationFrame, with what they captured
    saving,                 \* handleSaveSubtitleEdit suspended at its await
    dbSubtitle,             \* durable store: the saved track
    debounced,              \* lodash debounce: pending trailing call (its last arguments)
    cleanup,                \* the cleanup closure returned by the last effect run
    writes,                 \* calls of MediaDatabaseService.updateSubtitleIndex, in order
    last                    \* the handler that ran last

pageVars    == <<subtitle, currentSubtitleIndex, playMode, isPlaying, editMode,
                 editedTime, editedText, recordingMode, isSeeking, rafQueue, saving,
                 dbSubtitle>>
mediaVars   == <<currentTime, paused, seekEvt>>
persistVars == <<debounced, cleanup, writes>>
vars        == <<lifecycle, pageVars, mediaVars, persistVars, last>>

----------------------------------------------------------------------------
(* Bounds *)

Duration   == 4     \* length of the media, in grid steps
MaxPending == 2     \* animation-frame callbacks that may be queued at once
MaxWrites  == 3     \* index writes recorded before index changes stop
MaxOvershoot == 1   \* how far queued skips may carry the index outside the track
MaxShift   == 1     \* how far offsets may move a boundary of the edit buffer
MaxEntries == 3     \* entries of the tracks the resolver is run on

----------------------------------------------------------------------------
(* Data *)

OFF          == "off"
SINGLE_PAUSE == "single-pause"
SINGLE_LOOP  == "single-loop"
PlayModeValues == {OFF, SINGLE_PAUSE, SINGLE_LOOP}

Times == 0..Duration

SubtitleEntry(i, s, e, ps, pe, txt) ==
    [index |-> i, startTime |-> s, endTime |-> e,
     preciseStartTime |-> ps, preciseEndTime |-> pe, text |-> txt]

\* Tracks a session may load: sorted by startTime, display intervals disjoint.
\* The first has a gap between its entries and precise bounds equal to the
\* display bounds; the second is calibrated: its second entry replays from
\* before its display interval.
Tracks ==
    { << SubtitleEntry(0, 0, 1, 0, 1, <<"a">>), SubtitleEntry(1, 2, 4, 2, 4, <<"b">>) >>,
      << SubtitleEntry(0, 0, 2, 0, 2, <<"a">>), SubtitleEntry(1, 2, 4, 1, 4, <<"b">>) >> }

Texts == { <<>>, <<" ">>, <<"c">>, <<" ", "c", " ">> }

None == [set |-> FALSE, index |-> 0]
Some(i) == [set |-> TRUE, index |-> i]

Min(a, b) == IF a < b THEN a ELSE b
Max(a, b) == IF a > b THEN a ELSE b

----------------------------------------------------------------------------
(* The media element (HTMLMediaElement semantics), as the page uses it *)

Media == [t |-> currentTime, paused |-> paused, evt |-> seekEvt]

Clamp(t) == Max(0, Min(t, Duration))

\* videoRef.current.currentTime = target / 1000: the position changes at once and
\* the element will notify "seeking" and then "seeked".
MediaSeek(m, target) == [m EXCEPT !.t = Clamp(target), !.evt = "seeking"]

\* videoRef.current.pause()
MediaPause(m) == [m EXCEPT !.paused = TRUE]

\* videoRef.current.play(): playback that has ended restarts from the beginning.
MediaPlay(m) ==
    IF m.t = Duration
        THEN [MediaSeek(m, 0) EXCEPT !.paused = FALSE]
        ELSE [m EXCEPT !.paused = FALSE]

SetMedia(m) ==
    /\ currentTime' = m.t
    /\ paused' = m.paused
    /\ seekEvt' = m.evt

----------------------------------------------------------------------------
(* Time-to-index resolver *)

entries == subtitle

\* entries[i] is defined (JavaScript indexes from 0)
InRange(i) == i \in 0..(Len(entries) - 1)
EntryAt(i) == entries[i + 1]

\* entries.findIndex(entry => t >= entry.startTime && t < entry.endTime)
\* Mutant of Contains: the display interval is closed at its end.
Contains_Closed(entry, t) == t >= entry.startTime /\ t <= entry.endTime

Contains(entry, t) == t >= entry.startTime /\ t < entry.endTime

RECURSIVE findIndexFrom(_, _, _)
findIndexFrom(es, t, i) ==
    IF i >= Len(es) THEN -1
    ELSE IF Contains(es[i + 1], t) THEN i
    ELSE findIndexFrom(es, t, i + 1)

findIndex(es, t) == findIndexFrom(es, t, 0)

\* Mutant of findSubtitleIndexByTime: the comparisons admit equality.
RECURSIVE bsearchInclusive(_, _, _, _, _, _)
bsearchInclusive(es, targetTime, direction, left, right, result) ==
    IF left > right THEN result
    ELSE LET mid == (left + right) \div 2
             startTime == es[mid + 1].startTime
         IN IF direction = "next"
              THEN IF startTime >= targetTime
                     THEN bsearchInclusive(es, targetTime, direction, left, mid - 1, mid)
                     ELSE bsearchInclusive(es, targetTime, direction, mid + 1, right, result)
              ELSE IF startTime <= targetTime
                     THEN bsearchInclusive(es, targetTime, direction, mid + 1, right, mid)
                     ELSE bsearchInclusive(es, targetTime, direction, left, mid - 1, result)

findSubtitleIndexByTime_Inclusive(es, targetTime, direction) ==
    bsearchInclusive(es, targetTime, direction, 0, Len(es) - 1, -1)

\* Binary search on startTime, as the loop of findSubtitleIndexByTime runs it.
RECURSIVE bsearch(_, _, _, _, _, _)
bsearch(es, targetTime, direction, left, right, result) ==
    IF left > right THEN result
    ELSE LET mid == (left + right) \div 2
             startTime == es[mid + 1].startTime
         IN IF direction = "next"
              THEN IF startTime > targetTime
                     THEN bsearch(es, targetTime, direction, left, mid - 1, mid)
                     ELSE bsearch(es, targetTime, direction, mid + 1, right, result)
              ELSE IF startTime < targetTime
                     THEN bsearch(es, targetTime, direction, mid + 1, right, mid)
                     ELSE bsearch(es, targetTime, direction, left, mid - 1, result)

\* Mutant of findSubtitleIndexByTime: the two directions are exchanged.
findSubtitleIndexByTime_Swapped(es, targetTime, direction) ==
    bsearch(es, targetTime, IF direction = "next" THEN "previous" ELSE "next",
            0, Len(es) - 1, -1)

findSubtitleIndexByTime(es, targetTime, direction) ==
    bsearch(es, targetTime, direction, 0, Len(es) - 1, -1)

----------------------------------------------------------------------------
(* Play-mode controller *)

\* Mutant of ReachedEnd: the boundary itself does not count.
ReachedEnd_Strict(t, preciseEndTime) == t > preciseEndTime

\* Mutant of ReachedEnd: the boundary is never found reached.
ReachedEnd_Never(t, preciseEndTime) == FALSE

\* currentTimeMs >= preciseEndTime
ReachedEnd(t, preciseEndTime) == t >= preciseEndTime

\* editMode || recordingMode
BoundedMode == editMode \/ recordingMode

\* Mutant of Unresolved: an index of -1 does not stop the controller.
Unresolved_SeekingOnly == isSeeking

\* Mutant of Unresolved: a scrub in progress does not stop the controller.
Unresolved_IgnoresSeeking == currentSubtitleIndex = -1

\* The early returns of checkPlayMode: nothing resolved yet, or a scrub in progress.
Unresolved == currentSubtitleIndex = -1 \/ isSeeking

\* Mutant of BoundStart: the resume target ignores the edit buffer.
BoundStart_Stored == EntryAt(currentSubtitleIndex).preciseStartTime

\* Boundaries of bounded playback: the edit buffer in edit mode, else the entry.
BoundStart == IF editMode THEN editedTime.startTime
              ELSE EntryAt(currentSubtitleIndex).preciseStartTime
BoundEnd   == IF editMode THEN editedTime.endTime
              ELSE EntryAt(currentSubtitleIndex).preciseEndTime

\* Reading a field of entries[currentSubtitleIndex] throws when the index is outside
\* the track; in edit mode the entry is never read.
ReadsMissingEntry ==
    /\ ~Unresolved
    /\ ~InRange(currentSubtitleIndex)
    /\ \/ (BoundedMode /\ ~editMode)
       \/ (~BoundedMode /\ playMode \in {SINGLE_PAUSE, SINGLE_LOOP})

\* Mutant of HoldsIndex: the single-loop branch lets the caller update the index.
HoldsIndex_LoopAdvances == BoundedMode \/ playMode = SINGLE_PAUSE

\* The branches of checkPlayMode that end in "return false": the caller must
\* leave currentSubtitleIndex alone.
HoldsIndex == BoundedMode \/ playMode \in {SINGLE_PAUSE, SINGLE_LOOP}

\* Mutant of LoopTarget: the loop jumps to the display start.
LoopTarget_Display(entry) == entry.startTime

\* Where single-loop playback jumps back to
LoopTarget(entry) == entry.preciseStartTime

\* checkPlayMode(shouldSeekToStart) on media m: ret is the returned flag (may the
\* caller update currentSubtitleIndex), media the element after the calls made.
checkPlayMode(shouldSeekToStart, m) ==
    LET free == [ret |-> TRUE, threw |-> FALSE, media |-> m]
        held(media) == [ret |-> ~HoldsIndex, threw |-> FALSE, media |-> media]
    IN  IF Unresolved THEN free
        ELSE IF ReadsMissingEntry THEN [ret |-> FALSE, threw |-> TRUE, media |-> m]
        ELSE IF BoundedMode THEN
            LET m1 == IF shouldSeekToStart THEN MediaSeek(m, BoundStart) ELSE m
                m2 == IF ReachedEnd(m.t, BoundEnd) THEN MediaPause(m1) ELSE m1
            IN  held(m2)
        ELSE IF playMode = SINGLE_PAUSE THEN
            LET e  == EntryAt(currentSubtitleIndex)
                m1 == IF shouldSeekToStart THEN MediaSeek(m, e.preciseStartTime) ELSE m
                m2 == IF ReachedEnd(m.t, e.preciseEndTime) THEN MediaPause(m1) ELSE m1
            IN  held(m2)
        ELSE IF playMode = SINGLE_LOOP THEN
            LET e  == EntryAt(currentSubtitleIndex)
                m1 == IF ReachedEnd(m.t, e.preciseEndTime)
                        THEN MediaSeek(m, LoopTarget(e)) ELSE m
            IN  held(m1)
        ELSE free

----------------------------------------------------------------------------
(* Event handlers of the page.  Each states what it does to the page and the *)
(* media element; the persistence hook observes currentSubtitleIndex apart.  *)

Mounted == lifecycle = "mounted"

\* Mutant of handleTimeUpdate: the index follows the scan into the gaps.
handleTimeUpdate_ResetsInGap ==
    /\ Mounted
    /\ LET r     == checkPlayMode(FALSE, Media)
           index == findIndex(entries, currentTime)
       IN  /\ SetMedia(r.media)
           /\ IF ~r.threw /\ r.ret
                THEN /\ currentSubtitleIndex' = index
                     /\ isSeeking' = FALSE
                ELSE UNCHANGED <<currentSubtitleIndex, isSeeking>>
    /\ UNCHANGED <<subtitle, playMode, isPlaying, editMode, editedTime, editedText,
                   recordingMode, rafQueue, saving, dbSubtitle>>

\* onTimeUpdate
\* Mutant of handleTimeUpdate: an index once resolved is never moved by a tick.
handleTimeUpdate_HoldsResolved ==
    /\ Mounted
    /\ LET r     == checkPlayMode(FALSE, Media)
           index == findIndex(entries, currentTime)
       IN  /\ SetMedia(r.media)
           /\ IF ~r.threw /\ r.ret /\ index # -1 /\ currentSubtitleIndex = -1
                THEN /\ currentSubtitleIndex' = index
                     /\ isSeeking' = FALSE
                ELSE UNCHANGED <<currentSubtitleIndex, isSeeking>>
    /\ UNCHANGED <<subtitle, playMode, isPlaying, editMode, editedTime, editedText,
                   recordingMode, rafQueue, saving, dbSubtitle>>

\* Mutant of handleTimeUpdate: the tick that resolves the index leaves the flag.
handleTimeUpdate_KeepsFlag ==
    /\ Mounted
    /\ LET r     == checkPlayMode(FALSE, Media)
           index == findIndex(entries, currentTime)
       IN  /\ SetMedia(r.media)
           /\ IF ~r.threw /\ r.ret /\ index # -1
                THEN currentSubtitleIndex' = index
                ELSE UNCHANGED currentSubtitleIndex
    /\ UNCHANGED <<subtitle, playMode, isPlaying, editMode, editedTime, editedText,
                   recordingMode, isSeeking, rafQueue, saving, dbSubtitle>>

handleTimeUpdate ==
    /\ Mounted
    /\ LET r     == checkPlayMode(FALSE, Media)
           index == findIndex(entries, currentTime)
       IN  /\ SetMedia(r.media)
           /\ IF ~r.threw /\ r.ret /\ index # -1
                THEN /\ currentSubtitleIndex' = index
                     /\ isSeeking' = FALSE
                ELSE UNCHANGED <<currentSubtitleIndex, isSeeking>>
    /\ UNCHANGED <<subtitle, playMode, isPlaying, editMode, editedTime, editedText,
                   recordingMode, rafQueue, saving, dbSubtitle>>

\* onLoadedMetadata: savedSubtitleIndex is what useMediaInit read from the store.
handleLoadedMetadata(savedSubtitleIndex) ==
    /\ Mounted
    /\ IF savedSubtitleIndex < 0 \/ currentSubtitleIndex # -1
            \/ ~InRange(savedSubtitleIndex)
         THEN UNCHANGED <<currentSubtitleIndex, mediaVars>>
         ELSE /\ SetMedia(MediaSeek(Media, EntryAt(savedSubtitleIndex).startTime))
              /\ currentSubtitleIndex' = savedSubtitleIndex
    /\ UNCHANGED <<subtitle, playMode, isPlaying, editMode, editedTime, editedText,
                   recordingMode, isSeeking, rafQueue, saving, dbSubtitle>>

\* onSeeking
handleSeeking ==
    /\ Mounted
    /\ seekEvt = "seeking"
    /\ isSeeking' = TRUE
    /\ seekEvt' = "seeked"
    /\ UNCHANGED <<subtitle, currentSubtitleIndex, playMode, isPlaying, editMode,
                   editedTime, editedText, recordingMode, rafQueue, saving, dbSubtitle,
                   currentTime, paused>>

\* onSeeked
handleSeeked ==
    /\ Mounted
    /\ seekEvt = "seeked"
    /\ isSeeking' = TRUE
    /\ seekEvt' = "none"
    /\ UNCHANGED <<subtitle, currentSubtitleIndex, playMode, isPlaying, editMode,
                   editedTime, editedText, recordingMode, rafQueue, saving, dbSubtitle,
                   currentTime, paused>>

\* onPlay / onPause: setIsPlaying follows the element
handlePlayPauseEvent ==
    /\ Mounted
    /\ isPlaying # ~paused
    /\ isPlaying' = ~paused
    /\ UNCHANGED <<subtitle, currentSubtitleIndex, playMode, editMode, editedTime,
                   editedText, recordingMode, isSeeking, rafQueue, saving, dbSubtitle,
                   mediaVars>>

\* Mutant of handleTogglePlayPause: the resume asks for no seek to the start.
handleTogglePlayPause_NoSeek ==
    /\ Mounted
    /\ IF isPlaying
         THEN SetMedia(MediaPause(Media))
         ELSE LET r == checkPlayMode(FALSE, Media)
              IN  IF r.threw THEN UNCHANGED mediaVars
                  ELSE SetMedia(MediaPlay(r.media))
    /\ UNCHANGED pageVars

\* handleTogglePlayPause
handleTogglePlayPause ==
    /\ Mounted
    /\ IF isPlaying
         THEN SetMedia(MediaPause(Media))
         ELSE LET r == checkPlayMode(TRUE, Media)
              IN  IF r.threw THEN UNCHANGED mediaVars
                  ELSE SetMedia(MediaPlay(r.media))
    /\ UNCHANGED pageVars

\* onPlayModeChange
setPlayMode(mode) ==
    /\ Mounted
    /\ mode # playMode
    /\ playMode' = mode
    /\ UNCHANGED <<subtitle, currentSubtitleIndex, isPlaying, editMode, editedTime,
                   editedText, recordingMode, isSeeking, rafQueue, saving, dbSubtitle,
                   mediaVars>>

----------------------------------------------------------------------------
(* Navigation: the handlers defer their work to the next animation frame; the *)
(* callback keeps the currentSubtitleIndex of the render it was created in.   *)

Request(kind, index) ==
    /\ Mounted
    /\ Len(rafQueue) < MaxPending
    /\ rafQueue' = Append(rafQueue, [kind |-> kind, index |-> index])
    /\ UNCHANGED <<subtitle, currentSubtitleIndex, playMode, isPlaying, editMode,
                   editedTime, editedText, recordingMode, isSeeking, saving, dbSubtitle,
                   mediaVars>>

handlePreviousSubtitle == Request("previous", currentSubtitleIndex)
handleNextSubtitle     == Request("next", currentSubtitleIndex)
handleSubtitleClick(subtitleIndex) == Request("click", subtitleIndex)

\* The jump every successful request ends with: clear the flag, seek, play.
JumpTo(s, idx, target) ==
    IF ~InRange(target)
      THEN [s EXCEPT !.idx = idx]          \* entries[target].startTime throws after the set
      ELSE [idx |-> idx, isSeeking |-> FALSE,
            media |-> MediaPlay(MediaSeek(s.media, EntryAt(target).startTime))]

\* Mutant of StepPrevious: the test of the track's start is dropped.
StepPrevious_Unguarded(cb, s) == JumpTo(s, s.idx - 1, cb.index - 1)

\* "旧逻辑": the stale index is tested, the update is functional (prev => prev - 1)
StepPrevious(cb, s) ==
    IF cb.index < 1 THEN s ELSE JumpTo(s, s.idx - 1, cb.index - 1)

StepNext(cb, s) ==
    IF cb.index = Len(entries) - 1 THEN s ELSE JumpTo(s, s.idx + 1, cb.index + 1)

\* Mutant of RunCallback: a skip always steps from the captured index.
RunCallback_FromIndex(cb, s) ==
    IF cb.kind = "click"
      THEN IF cb.index = -1 THEN s
           ELSE [s EXCEPT !.idx = cb.index,
                          !.media = MediaPlay(MediaSeek(s.media, EntryAt(cb.index).startTime))]
    ELSE IF cb.kind = "previous" THEN StepPrevious(cb, s)
    ELSE StepNext(cb, s)

\* One callback, on the state s = [idx, isSeeking, media] the earlier ones left.
RunCallback(cb, s) ==
    IF cb.kind = "click"
      THEN IF cb.index = -1 THEN s
           ELSE [s EXCEPT !.idx = cb.index,
                          !.media = MediaPlay(MediaSeek(s.media, EntryAt(cb.index).startTime))]
    ELSE IF s.isSeeking
      THEN LET found == findSubtitleIndexByTime(entries, s.media.t, cb.kind)
           IN  IF found = -1 THEN s ELSE JumpTo(s, found, found)
    ELSE IF cb.kind = "previous" THEN StepPrevious(cb, s)
    ELSE StepNext(cb, s)

RECURSIVE RunCallbacks(_, _)
RunCallbacks(q, s) ==
    IF q = <<>> THEN s ELSE RunCallbacks(Tail(q), RunCallback(Head(q), s))

\* One animation frame: every queued callback runs before the next render.
AnimationFrame ==
    /\ Mounted
    /\ rafQueue # <<>>
    /\ LET s == RunCallbacks(rafQueue,
                    [idx |-> currentSubtitleIndex, isSeeking |-> isSeeking, media |-> Media])
       IN  /\ s.idx \in (-1 - MaxOvershoot)..(Len(entries) - 1 + MaxOvershoot)
           /\ currentSubtitleIndex' = s.idx
           /\ isSeeking' = s.isSeeking
           /\ SetMedia(s.media)
    /\ rafQueue' = <<>>
    /\ UNCHANGED <<subtitle, playMode, isPlaying, editMode, editedTime, editedText,
                   recordingMode, saving, dbSubtitle>>

----------------------------------------------------------------------------
(* Edit (calibration) and record-along sessions *)

\* Mutant of handleEnterEditMode: the media is sent to the precise start.
handleEnterEditMode_SeeksPrecise(subtitleIndex) ==
    /\ Mounted
    /\ InRange(subtitleIndex)
    /\ LET targetEntry == EntryAt(subtitleIndex)
       IN  /\ editedTime' = [startTime |-> targetEntry.preciseStartTime,
                             endTime |-> targetEntry.preciseEndTime]
           /\ editedText' = targetEntry.text
           /\ SetMedia(MediaPause(MediaSeek(Media, targetEntry.preciseStartTime)))
    /\ currentSubtitleIndex' = subtitleIndex
    /\ editMode' = TRUE
    /\ UNCHANGED <<subtitle, playMode, isPlaying, recordingMode, isSeeking, rafQueue,
                   saving, dbSubtitle>>

\* handleEnterEditMode(subtitleIndex): the list offers the indices of the track
handleEnterEditMode(subtitleIndex) ==
    /\ Mounted
    /\ InRange(subtitleIndex)
    /\ LET targetEntry == EntryAt(subtitleIndex)
       IN  /\ editedTime' = [startTime |-> targetEntry.preciseStartTime,
                             endTime |-> targetEntry.preciseEndTime]
           /\ editedText' = targetEntry.text
           /\ SetMedia(MediaPause(MediaSeek(Media, targetEntry.startTime)))
    /\ currentSubtitleIndex' = subtitleIndex
    /\ editMode' = TRUE
    /\ UNCHANGED <<subtitle, playMode, isPlaying, recordingMode, isSeeking, rafQueue,
                   saving, dbSubtitle>>

\* Mutant of ExitEdit: the buffer is left as it was.
ExitEdit_KeepsBuffer ==
    /\ editMode' = FALSE
    /\ UNCHANGED <<editedTime, editedText>>

\* handleExitEditMode
ExitEdit ==
    /\ editMode' = FALSE
    /\ editedTime' = [startTime |-> 0, endTime |-> 0]
    /\ editedText' = <<>>

handleExitEditMode ==
    /\ Mounted
    /\ editMode
    /\ ExitEdit
    /\ UNCHANGED <<subtitle, currentSubtitleIndex, playMode, isPlaying, recordingMode,
                   isSeeking, rafQueue, saving, dbSubtitle, mediaVars>>

\* Mutant of handleTimeOffset: the offset is applied to the entry's stored bound,
\* so that an offset overwrites the one before it.
handleTimeOffset_FromStored(offset, isStartTime, isForward) ==
    /\ Mounted
    /\ editMode
    /\ InRange(currentSubtitleIndex)
    /\ LET from      == IF isStartTime
                          THEN EntryAt(currentSubtitleIndex).preciseStartTime
                          ELSE EntryAt(currentSubtitleIndex).preciseEndTime
           newOffset == IF isForward THEN from + offset ELSE from - offset
       IN  editedTime' = IF isStartTime
                           THEN [editedTime EXCEPT !.startTime = newOffset]
                           ELSE [editedTime EXCEPT !.endTime = newOffset]
    /\ UNCHANGED <<subtitle, currentSubtitleIndex, playMode, isPlaying, editMode,
                   editedText, recordingMode, isSeeking, rafQueue, saving, dbSubtitle,
                   mediaVars>>

\* handleTimeOffset(offset, isStartTime, isForward); the buffer is kept within
\* MaxShift of the entry's stored bounds
handleTimeOffset(offset, isStartTime, isForward) ==
    /\ Mounted
    /\ editMode
    /\ LET newTime   == IF isStartTime THEN editedTime.startTime ELSE editedTime.endTime
           newOffset == IF isForward THEN newTime + offset ELSE newTime - offset
           original  == EntryAt(currentSubtitleIndex)
           from      == IF isStartTime THEN original.preciseStartTime
                        ELSE original.preciseEndTime
       IN  /\ InRange(currentSubtitleIndex)
           /\ newOffset \in (from - MaxShift)..(from + MaxShift)
           /\ editedTime' = IF isStartTime
                              THEN [editedTime EXCEPT !.startTime = newOffset]
                              ELSE [editedTime EXCEPT !.endTime = newOffset]
    /\ UNCHANGED <<subtitle, currentSubtitleIndex, playMode, isPlaying, editMode,
                   editedText, recordingMode, isSeeking, rafQueue, saving, dbSubtitle,
                   mediaVars>>

\* onTextChange
setEditedText(text) ==
    /\ Mounted
    /\ editMode
    /\ text # editedText
    /\ editedText' = text
    /\ UNCHANGED <<subtitle, currentSubtitleIndex, playMode, isPlaying, editMode,
                   editedTime, recordingMode, isSeeking, rafQueue, saving, dbSubtitle,
                   mediaVars>>

\* String.prototype.trim on a text held as a sequence of characters
RECURSIVE TrimLeft(_)
TrimLeft(txt) ==
    IF txt # <<>> /\ Head(txt) = " " THEN TrimLeft(Tail(txt)) ELSE txt

RECURSIVE TrimRight(_)
TrimRight(txt) ==
    IF txt # <<>> /\ txt[Len(txt)] = " "
      THEN TrimRight(SubSeq(txt, 1, Len(txt) - 1)) ELSE txt

\* Mutant of Trim: the text is taken as typed.
Trim_AsTyped(txt) == txt

Trim(txt) == TrimRight(TrimLeft(txt))

\* Mutant of EditedEntry: only the text is written.
EditedEntry_TextOnly(entry, time, trimmedText) == [entry EXCEPT !.text = trimmedText]

\* The entry as handleSaveSubtitleEdit rewrites it
EditedEntry(entry, time, trimmedText) ==
    [entry EXCEPT !.preciseStartTime = time.startTime,
                  !.preciseEndTime = time.endTime,
                  !.text = trimmedText]

\* handleSaveSubtitleEdit up to its await.  { ...subtitle } copies the track
\* object but shares its entries array, so the entry is rewritten in place.
handleSaveSubtitleEdit ==
    /\ Mounted
    /\ editMode
    /\ ~saving.set
    /\ IF currentSubtitleIndex = -1 \/ Trim(editedText) = <<>>
            \/ ~InRange(currentSubtitleIndex)
         THEN UNCHANGED <<subtitle, saving>>
         ELSE /\ subtitle' = [subtitle EXCEPT ![currentSubtitleIndex + 1] =
                                EditedEntry(@, editedTime, Trim(editedText))]
              /\ saving' = [set |-> TRUE, track |-> subtitle']
    /\ UNCHANGED <<currentSubtitleIndex, playMode, isPlaying, editMode, editedTime,
                   editedText, recordingMode, isSeeking, rafQueue, dbSubtitle, mediaVars>>

\* MediaDatabaseService.updateSubtitle resolved: setSubtitle, handleExitEditMode
SaveResolved ==
    /\ Mounted
    /\ saving.set
    /\ dbSubtitle' = saving.track
    /\ saving' = [set |-> FALSE, track |-> <<>>]
    /\ ExitEdit
    /\ UNCHANGED <<subtitle, currentSubtitleIndex, playMode, isPlaying, recordingMode,
                   isSeeking, rafQueue, mediaVars>>

\* MediaDatabaseService.updateSubtitle rejected: the catch block only notifies
SaveRejected ==
    /\ Mounted
    /\ saving.set
    /\ saving' = [set |-> FALSE, track |-> <<>>]
    /\ UNCHANGED <<subtitle, currentSubtitleIndex, playMode, isPlaying, editMode,
                   editedTime, editedText, recordingMode, isSeeking, rafQueue,
                   dbSubtitle, mediaVars>>

\* Mutant of handleEnterRecordingMode: the media is not paused.
handleEnterRecordingMode_NoPause(subtitleIndex) ==
    /\ Mounted
    /\ InRange(subtitleIndex)
    /\ SetMedia(MediaSeek(Media, EntryAt(subtitleIndex).startTime))
    /\ currentSubtitleIndex' = subtitleIndex
    /\ recordingMode' = TRUE
    /\ UNCHANGED <<subtitle, playMode, isPlaying, editMode, editedTime, editedText,
                   isSeeking, rafQueue, saving, dbSubtitle>>

\* handleEnterRecordingMode(subtitleIndex)
handleEnterRecordingMode(subtitleIndex) ==
    /\ Mounted
    /\ InRange(subtitleIndex)
    /\ SetMedia(MediaPause(MediaSeek(Media, EntryAt(subtitleIndex).startTime)))
    /\ currentSubtitleIndex' = subtitleIndex
    /\ recordingMode' = TRUE
    /\ UNCHANGED <<subtitle, playMode, isPlaying, editMode, editedTime, editedText,
                   isSeeking, rafQueue, saving, dbSubtitle>>

\* handleExitRecordingMode
handleExitRecordingMode ==
    /\ Mounted
    /\ recordingMode
    /\ recordingMode' = FALSE
    /\ UNCHANGED <<subtitle, currentSubtitleIndex, playMode, isPlaying, editMode,
                   editedTime, editedText, isSeeking, rafQueue, saving, dbSubtitle,
                   mediaVars>>

----------------------------------------------------------------------------
(* The environment: the playback clock and the user's hand on the time range *)

\* Playback advances; reaching the end pauses the element.
MediaAdvance ==
    /\ Mounted
    /\ ~paused
    /\ currentTime < Duration
    /\ currentTime' = currentTime + 1
    /\ paused' = (currentTime' = Duration)
    /\ UNCHANGED <<pageVars, seekEvt>>

\* A manual scrub on <MediaTimeRange>
UserScrub(t) ==
    /\ Mounted
    /\ t # currentTime
    /\ SetMedia(MediaSeek(Media, t))
    /\ UNCHANGED pageVars

----------------------------------------------------------------------------
(* Persistence of the index: useSubtitleIndexPersist.  The effect runs after  *)
(* every render in which currentSubtitleIndex changed; the run on mount only  *)
(* clears isFirstRenderRef, so the state after mount holds no timer and no    *)
(* cleanup.                                                                   *)

\* MediaDatabaseService.updateSubtitleIndex(id, index)
Written(log, index) == Append(log, index)

\* Mutant of RunCleanup: the cleanup cancels the timer and writes nothing.
RunCleanup_CancelOnly(log) == log

\* The cleanup of the previous effect run: cancel the timer, write what it captured.
RunCleanup(log) == IF cleanup.set THEN Written(log, cleanup.index) ELSE log

\* Mutant of useEffect: the new value is not handed to the debounced save.
useEffect_NoSchedule ==
    IF currentSubtitleIndex' = currentSubtitleIndex
      THEN UNCHANGED persistVars
      ELSE /\ Len(writes) < MaxWrites
           /\ writes' = RunCleanup(writes)
           /\ debounced' = None
           /\ cleanup' = Some(currentSubtitleIndex')

\* The effect body for the new value: debouncedSave(id, index), and a new cleanup.
useEffect ==
    IF currentSubtitleIndex' = currentSubtitleIndex
      THEN UNCHANGED persistVars
      ELSE /\ Len(writes) < MaxWrites
           /\ writes' = RunCleanup(writes)
           /\ debounced' = Some(currentSubtitleIndex')
           /\ cleanup' = Some(currentSubtitleIndex')

\* The quiet period (500 ms) ends with no further call: the trailing call runs.
DebounceFire ==
    /\ debounced.set
    /\ Len(writes) < MaxWrites
    /\ writes' = Written(writes, debounced.index)
    /\ debounced' = None
    /\ UNCHANGED <<lifecycle, pageVars, mediaVars, cleanup>>

\* The page is left: React runs the last cleanup and drops the refs.
Unmount ==
    /\ Mounted
    /\ lifecycle' = "unmounted"
    /\ writes' = RunCleanup(writes)
    /\ debounced' = IF cleanup.set THEN None ELSE debounced
    /\ cleanup' = None
    /\ UNCHANGED <<pageVars, mediaVars>>

\* The hook is left out of sight: its state does not feed back into the page.
Unobserved == UNCHANGED <<lifecycle, persistVars>>

\* The step is recorded as the one that ran last.
Ran(h) == last' = h

----------------------------------------------------------------------------
(* Specifications *)

Offsets == {1}

Init ==
    /\ lifecycle = "mounted"
    /\ subtitle \in Tracks
    /\ dbSubtitle = subtitle
    /\ currentSubtitleIndex = -1
    /\ playMode \in PlayModeValues
    /\ isPlaying = FALSE
    /\ editMode = FALSE
    /\ editedTime = [startTime |-> 0, endTime |-> 0]
    /\ editedText = <<>>
    /\ recordingMode = FALSE
    /\ isSeeking = FALSE
    /\ currentTime = 0
    /\ paused \in BOOLEAN
    /\ seekEvt = "none"
    /\ rafQueue = <<>>
    /\ saving = [set |-> FALSE, track |-> <<>>]
    /\ debounced = None
    /\ cleanup = None
    /\ writes = <<>>
    /\ last = "init"

\* The play-mode controller and the sessions: the page and the media element.
\* Skips and clicks are checked apart, under SpecNav.
Next ==
    \/ handleTimeUpdate /\ Unobserved /\ Ran("timeupdate")
    \/ (\E saved \in -1..Len(entries) : handleLoadedMetadata(saved))
            /\ Unobserved /\ Ran("other")
    \/ handleSeeking /\ Unobserved /\ Ran("other")
    \/ handleSeeked /\ Unobserved /\ Ran("other")
    \/ handlePlayPauseEvent /\ Unobserved /\ Ran("other")
    \/ handleTogglePlayPause /\ Unobserved /\ Ran("toggle")
    \/ (\E mode \in PlayModeValues : setPlayMode(mode)) /\ Unobserved /\ Ran("other")
    \/ (\E i \in 0..(Len(entries) - 1) : handleEnterEditMode(i))
            /\ Unobserved /\ Ran("other")
    \/ handleExitEditMode /\ Unobserved /\ Ran("other")
    \/ (\E d \in Offsets, isStart \in BOOLEAN, isForward \in BOOLEAN :
            handleTimeOffset(d, isStart, isForward)) /\ Unobserved /\ Ran("other")
    \/ (\E i \in 0..(Len(entries) - 1) : handleEnterRecordingMode(i))
            /\ Unobserved /\ Ran("other")
    \/ handleExitRecordingMode /\ Unobserved /\ Ran("other")
    \/ MediaAdvance /\ Unobserved /\ Ran("other")
    \/ (\E t \in Times : UserScrub(t)) /\ Unobserved /\ Ran("other")

Spec == Init /\ [][Next]_vars

\* Navigation: several skip requests may wait for the same frame.
NextNav ==
    \/ handleTimeUpdate /\ Unobserved /\ Ran("timeupdate")
    \/ (\E saved \in -1..Len(entries) : handleLoadedMetadata(saved))
            /\ Unobserved /\ Ran("loadedmetadata")
    \/ handleSeeking /\ Unobserved /\ Ran("other")
    \/ handleSeeked /\ Unobserved /\ Ran("other")
    \/ handlePreviousSubtitle /\ Unobserved /\ Ran("other")
    \/ handleNextSubtitle /\ Unobserved /\ Ran("other")
    \/ (\E i \in 0..(Len(entries) - 1) : handleSubtitleClick(i))
            /\ Unobserved /\ Ran("other")
    \/ AnimationFrame /\ Unobserved /\ Ran("frame")
    \/ MediaAdvance /\ Unobserved /\ Ran("other")
    \/ (\E t \in Times : UserScrub(t)) /\ Unobserved /\ Ran("other")

SpecNav == Init /\ [][NextNav]_vars

\* Persistence: the handlers that change the index, observed by the hook; one
\* skip or click waits for a frame at a time.
OneAtATime == rafQueue = <<>>

NextPersist ==
    \/ handleTimeUpdate /\ useEffect /\ UNCHANGED lifecycle /\ Ran("page")
    \/ (\E saved \in -1..Len(entries) : handleLoadedMetadata(saved))
            /\ useEffect /\ UNCHANGED lifecycle
            /\ Ran(IF currentSubtitleIndex' # currentSubtitleIndex
                     THEN "restore" ELSE "page")
    \/ OneAtATime /\ handlePreviousSubtitle /\ useEffect /\ UNCHANGED lifecycle
            /\ Ran("page")
    \/ OneAtATime /\ handleNextSubtitle /\ useEffect /\ UNCHANGED lifecycle
            /\ Ran("page")
    \/ OneAtATime /\ (\E i \in 0..(Len(entries) - 1) : handleSubtitleClick(i))
            /\ useEffect /\ UNCHANGED lifecycle /\ Ran("page")
    \/ AnimationFrame /\ useEffect /\ UNCHANGED lifecycle /\ Ran("page")
    \/ MediaAdvance /\ useEffect /\ UNCHANGED lifecycle /\ Ran("page")
    \/ DebounceFire /\ Ran("debounce")
    \/ Unmount /\ Ran("unmount")

InitPersist == Init /\ playMode = OFF /\ ~paused

SpecPersist == InitPersist /\ [][NextPersist]_vars

\* Calibration: the edit session, its Save, and the tick that reads the track
\* meanwhile; the media stays where Enter put it.
\* The track as it was loaded (the two tracks differ in their display bounds).
Display(track) ==
    [k \in 1..Len(track) |-> <<track[k].index, track[k].startTime, track[k].endTime>>]

Loaded == CHOOSE tr \in Tracks : Display(tr) = Display(subtitle)

\* A session calibrates one entry: Save acts on the track as it was loaded.
SaveBudget == subtitle = Loaded

\* The button of the popup that handleTimeOffset was called from.
OffsetTag(isStartTime, isForward) ==
    IF isStartTime THEN (IF isForward THEN "start+" ELSE "start-")
                   ELSE (IF isForward THEN "end+" ELSE "end-")

NextEdit ==
    \/ (\E i \in 0..(Len(entries) - 1) : handleEnterEditMode(i))
            /\ Unobserved /\ Ran("enter")
    \/ handleExitEditMode /\ Unobserved /\ Ran("exit")
    \/ \E d \in Offsets, isStart \in BOOLEAN, isForward \in BOOLEAN :
            handleTimeOffset(d, isStart, isForward) /\ Unobserved
                /\ Ran(OffsetTag(isStart, isForward))
    \/ (\E text \in Texts : setEditedText(text)) /\ Unobserved /\ Ran("text")
    \/ SaveBudget /\ handleSaveSubtitleEdit /\ Unobserved /\ Ran("save")
    \/ SaveResolved /\ Unobserved /\ Ran("saveResolved")
    \/ SaveRejected /\ Unobserved /\ Ran("saveRejected")
    \/ handleTimeUpdate /\ Unobserved /\ Ran("timeupdate")

InitEdit == Init /\ playMode = OFF /\ paused

SpecEdit == InitEdit /\ [][NextEdit]_vars

\* The resolver: the containment scan of the tick and the binary search of the
\* skips, on every track sorted by startTime (ties, overlaps and gaps included,
\* and the empty track, all ending before the media does), at every time a
\* scrub can leave.  Skips are requested while the position is unresolved,
\* which is when they use the search.
Spans == {1, 2}

Intervals ==
    { <<s, e>> \in Times \X Times : e - s \in Spans /\ e < Duration }

TrackOf(f) ==
    [k \in DOMAIN f |->
        SubtitleEntry(k - 1, f[k][1], f[k][2], f[k][1], f[k][2], <<"a">>)]

SortedTracks ==
    UNION { { TrackOf(f) : f \in { g \in [1..n -> Intervals] :
                                    \A k \in 1..(n - 1) : g[k][1] <= g[k + 1][1] } }
            : n \in 0..MaxEntries }

InitResolve ==
    /\ lifecycle = "mounted"
    /\ subtitle \in SortedTracks
    /\ dbSubtitle = subtitle
    /\ currentSubtitleIndex = -1
    /\ playMode = OFF
    /\ isPlaying = FALSE
    /\ editMode = FALSE
    /\ editedTime = [startTime |-> 0, endTime |-> 0]
    /\ editedText = <<>>
    /\ recordingMode = FALSE
    /\ isSeeking = FALSE
    /\ currentTime = 0
    /\ paused = TRUE
    /\ seekEvt = "none"
    /\ rafQueue = <<>>
    /\ saving = [set |-> FALSE, track |-> <<>>]
    /\ debounced = None
    /\ cleanup = None
    /\ writes = <<>>
    /\ last = "init"

NextResolve ==
    \/ (\E t \in Times : UserScrub(t)) /\ Unobserved /\ Ran("other")
    \/ handleSeeking /\ Unobserved /\ Ran("other")
    \/ handleSeeked /\ Unobserved /\ Ran("other")
    \/ handleTimeUpdate /\ Unobserved /\ Ran("timeupdate")
    \/ isSeeking /\ OneAtATime /\ handlePreviousSubtitle /\ Unobserved /\ Ran("other")
    \/ isSeeking /\ OneAtATime /\ handleNextSubtitle /\ Unobserved /\ Ran("other")
    \/ AnimationFrame /\ Unobserved
            /\ Ran(IF isSeeking THEN Head(rafQueue).kind ELSE "other")

SpecResolve == InitResolve /\ [][NextResolve]_vars

\* Skips alone: the requests, the frame that runs them, and the playback and
\* seek notifications that may come between a request and its frame.
NextSkip ==
    \/ handleTimeUpdate /\ Unobserved /\ Ran("timeupdate")
    \/ handleSeeking /\ Unobserved /\ Ran("other")
    \/ handleSeeked /\ Unobserved /\ Ran("other")
    \/ handlePreviousSubtitle /\ Unobserved /\ Ran("other")
    \/ handleNextSubtitle /\ Unobserved /\ Ran("other")
    \/ AnimationFrame /\ Unobserved /\ Ran("frame")
    \/ MediaAdvance /\ Unobserved /\ Ran("other")

InitSkip == Init /\ playMode = OFF

SpecSkip == InitSkip /\ [][NextSkip]_vars

\* The edit session during playback: entering and leaving, the offsets, and
\* the media playing, paused and resumed around them.
NextSession ==
    \/ (\E i \in 0..(Len(entries) - 1) : handleEnterEditMode(i))
            /\ Unobserved /\ Ran("enter")
    \/ handleExitEditMode /\ Unobserved /\ Ran("other")
    \/ (\E d \in Offsets, isStart \in BOOLEAN, isForward \in BOOLEAN :
            handleTimeOffset(d, isStart, isForward)) /\ Unobserved /\ Ran("other")
    \/ (\E text \in Texts : setEditedText(text)) /\ Unobserved /\ Ran("other")
    \/ handleTimeUpdate /\ Unobserved /\ Ran("timeupdate")
    \/ handleSeeking /\ Unobserved /\ Ran("other")
    \/ handleSeeked /\ Unobserved /\ Ran("other")
    \/ handlePlayPauseEvent /\ Unobserved /\ Ran("other")
    \/ handleTogglePlayPause /\ Unobserved /\ Ran("toggle")
    \/ MediaAdvance /\ Unobserved /\ Ran("other")

InitSession == Init /\ playMode = OFF

SpecSession == InitSession /\ [][NextSession]_vars

\* The record session during playback in every play mode, with an edit
\* session beside it; every seek is one the page itself makes.
NextRecord ==
    \/ (\E i \in 0..(Len(entries) - 1) : handleEnterRecordingMode(i))
            /\ Unobserved /\ Ran("enterRecord")
    \/ handleExitRecordingMode /\ Unobserved /\ Ran("exitRecord")
    \/ (\E i \in 0..(Len(entries) - 1) : handleEnterEditMode(i))
            /\ Unobserved /\ Ran("other")
    \/ handleExitEditMode /\ Unobserved /\ Ran("other")
    \/ (\E d \in Offsets, isStart \in BOOLEAN, isForward \in BOOLEAN :
            handleTimeOffset(d, isStart, isForward)) /\ Unobserved /\ Ran("other")
    \/ handleTimeUpdate /\ Unobserved /\ Ran("timeupdate")
    \/ handleSeeking /\ Unobserved /\ Ran("other")
    \/ handleSeeked /\ Unobserved /\ Ran("other")
    \/ handlePlayPauseEvent /\ Unobserved /\ Ran("other")
    \/ handleTogglePlayPause /\ Unobserved /\ Ran("toggle")
    \/ MediaAdvance /\ Unobserved /\ Ran("other")

SpecRecord == Init /\ [][NextRecord]_vars

\* Bounded playback with the clock observed: the element delivers a timeupdate
\* for every step of the playback time, so time advances again only once the
\* step before has been followed by another event.
TickedAdvance == last # "advance" /\ MediaAdvance

NextLive ==
    \/ handleTimeUpdate /\ Unobserved /\ Ran("timeupdate")
    \/ TickedAdvance /\ Unobserved /\ Ran("advance")
    \/ handleSeeking /\ Unobserved /\ Ran("other")
    \/ handleSeeked /\ Unobserved /\ Ran("other")
    \/ handlePlayPauseEvent /\ Unobserved /\ Ran("other")
    \/ handleTogglePlayPause /\ Unobserved /\ Ran("toggle")
    \/ (\E i \in 0..(Len(entries) - 1) : handleEnterEditMode(i))
            /\ Unobserved /\ Ran("other")
    \/ handleExitEditMode /\ Unobserved /\ Ran("other")
    \/ (\E i \in 0..(Len(entries) - 1) : handleEnterRecordingMode(i))
            /\ Unobserved /\ Ran("other")
    \/ handleExitRecordingMode /\ Unobserved /\ Ran("other")

\* The index before anything is resolved, or brought back to -1 by queued
\* skips, in every play mode and with sessions open.
NextUnresolved ==
    \/ handleTimeUpdate /\ Unobserved /\ Ran("timeupdate")
    \/ handleTogglePlayPause /\ Unobserved /\ Ran("toggle")
    \/ handlePlayPauseEvent /\ Unobserved /\ Ran("other")
    \/ (\E i \in 0..(Len(entries) - 1) : handleEnterEditMode(i))
            /\ Unobserved /\ Ran("other")
    \/ (\E i \in 0..(Len(entries) - 1) : handleEnterRecordingMode(i))
            /\ Unobserved /\ Ran("other")
    \/ handlePreviousSubtitle /\ Unobserved /\ Ran("other")
    \/ AnimationFrame /\ Unobserved /\ Ran("frame")
    \/ MediaAdvance /\ Unobserved /\ Ran("other")

SpecUnresolved == Init /\ [][NextUnresolved]_vars

\* The element keeps firing timeupdate and keeps playing while it can.
SpecLive ==
    /\ Init
    /\ [][NextLive]_vars
    /\ WF_vars(handleTimeUpdate /\ Unobserved /\ Ran("timeupdate"))
    /\ WF_vars(TickedAdvance /\ Unobserved /\ Ran("advance"))

----------------------------------------------------------------------------
(* Properties of the play-mode controller (under Spec) *)

\* A timeupdate with the position resolved to an entry of the track: no scrub
\* flag, an index inside the track.
Resolved == ~isSeeking /\ InRange(currentSubtitleIndex)

\* C1: in single-pause or single-loop mode, with no edit or record session and
\* the position resolved to an index >= 0, a timeupdate never changes
\* currentSubtitleIndex, whatever the playback time.
C1_SingleModesHoldIndex ==
    [][ (/\ handleTimeUpdate
         /\ playMode \in {SINGLE_PAUSE, SINGLE_LOOP}
         /\ ~BoundedMode
         /\ ~isSeeking
         /\ currentSubtitleIndex >= 0)
        => currentSubtitleIndex' = currentSubtitleIndex ]_vars

\* C1 witness: a timeupdate has just run in a single mode with the playback time
\* inside another entry's display interval, and the index has stayed.
C1_Witness ==
    /\ last = "timeupdate"
    /\ playMode \in {SINGLE_PAUSE, SINGLE_LOOP}
    /\ ~BoundedMode
    /\ Resolved
    /\ findIndex(entries, currentTime) \notin {-1, currentSubtitleIndex}

\* C2 (as claimed): while an edit or record session is active, neither a
\* timeupdate nor a resume changes currentSubtitleIndex.
C2_SessionHoldsIndex ==
    [][ (BoundedMode /\ (handleTimeUpdate \/ handleTogglePlayPause))
        => currentSubtitleIndex' = currentSubtitleIndex ]_vars

\* C3: in single-pause mode with a resolved current entry, a timeupdate pauses
\* the media exactly when the playback time is >= the entry's preciseEndTime
\* (so also at equality), and does nothing else to the media.
C3_SinglePausePausesAtEnd ==
    [][ (/\ handleTimeUpdate
         /\ playMode = SINGLE_PAUSE
         /\ ~BoundedMode
         /\ Resolved)
        => /\ paused' = (paused \/ currentTime >= EntryAt(currentSubtitleIndex).preciseEndTime)
           /\ currentTime' = currentTime
           /\ seekEvt' = seekEvt ]_vars

\* C3 witness: a timeupdate has just paused playback with the time exactly at
\* the entry's preciseEndTime (the play state of the page still says playing).
C3_Witness ==
    /\ last = "timeupdate"
    /\ playMode = SINGLE_PAUSE
    /\ ~BoundedMode
    /\ Resolved
    /\ currentTime = EntryAt(currentSubtitleIndex).preciseEndTime
    /\ paused
    /\ isPlaying

C5_SessionOverridesMode ==
    [][ (handleTimeUpdate /\ BoundedMode /\ InRange(currentSubtitleIndex))
        => /\ currentSubtitleIndex' = currentSubtitleIndex
           /\ currentTime' = currentTime
           /\ seekEvt' = seekEvt
           /\ paused' = (paused \/ currentTime >= BoundEnd) ]_vars

\* C6 (as claimed): at most one of editMode and recordingMode is set.
C6_OneSessionAtATime == ~(editMode /\ recordingMode)

----------------------------------------------------------------------------
(* Properties of navigation (under SpecNav) *)

\* C7 (as claimed): currentSubtitleIndex is always in [-1, len - 1].
C7_IndexInRange == currentSubtitleIndex \in -1..(Len(entries) - 1)

----------------------------------------------------------------------------
(* Properties of the persistence hook (under SpecPersist) *)

Teardown == lifecycle = "mounted" /\ lifecycle' = "unmounted"

\* C8 (as claimed): index changes that fall within the quiet period of the
\* previous change write nothing themselves; the one write of the burst is the
\* timer's, and it carries the last value.
C8_OneWritePerBurst ==
    /\ [][ (currentSubtitleIndex' # currentSubtitleIndex /\ debounced.set)
            => writes' = writes ]_vars
    /\ [][ (debounced.set /\ ~debounced'.set /\ lifecycle' = "mounted"
                /\ currentSubtitleIndex' = currentSubtitleIndex)
            => writes' = Append(writes, currentSubtitleIndex) ]_vars

\* C9: on teardown after at least one index change, the pending write is
\* cancelled and the current index is written at once, so the last value in the
\* store is the last value of currentSubtitleIndex; nothing is written after
\* teardown.
C9_TeardownFlushesLatest ==
    /\ [][ (Teardown /\ cleanup.set)
            => /\ writes' = Append(writes, currentSubtitleIndex)
               /\ currentSubtitleIndex' = currentSubtitleIndex
               /\ ~debounced'.set ]_vars
    /\ [](lifecycle = "unmounted" => ~debounced.set)
    /\ [][ lifecycle = "unmounted" => writes' = writes ]_vars

\* C9 witness: the page has been left while the write of the latest index was
\* still pending (the store had last received another value), and the log ends
\* with the current index.
C9_Witness ==
    /\ lifecycle = "unmounted"
    /\ last = "unmount"
    /\ Len(writes) >= 2
    /\ writes[Len(writes)] = currentSubtitleIndex
    /\ writes[Len(writes) - 1] # currentSubtitleIndex
    /\ ~debounced.set

\* C10 (as claimed): an index change followed at once by teardown produces one
\* write in all, the teardown's: the change writes nothing, the teardown writes
\* once and cancels the timer, and nothing is written afterwards.
C10_ChangeThenTeardownWritesOnce ==
    /\ [][ currentSubtitleIndex' # currentSubtitleIndex => writes' = writes ]_vars
    /\ [][ (Teardown /\ debounced.set)
            => /\ Len(writes') = Len(writes) + 1
               /\ ~debounced'.set ]_vars
    /\ [][ lifecycle = "unmounted" => writes' = writes ]_vars

\* C11 (as claimed): the index restored from the store at loadedmetadata is not
\* written back: a step that follows the restore and leaves the index alone
\* (the quiet period running out, the page being left) writes nothing.
C11_RestoreNotWritten ==
    [][ (last = "restore" /\ currentSubtitleIndex' = currentSubtitleIndex)
            => writes' = writes ]_vars

----------------------------------------------------------------------------
(* Properties of the edit session (under SpecEdit) *)

\* Every character of the text is a space.
Blank(txt) == \A k \in 1..Len(txt) : txt[k] = " "

\* C12: a Save whose text is empty after trimming changes nothing: the track,
\* the store, the edit buffer, editMode and currentSubtitleIndex stay, and no
\* write of the track is started.
C12_BlankSaveRejected ==
    [][ (last' = "save" /\ Blank(editedText))
            => UNCHANGED <<subtitle, dbSubtitle, editedTime, editedText, editMode,
                           currentSubtitleIndex, saving>> ]_vars

\* C12 witness: Save has just run on a text of spaces only, in an edit session
\* whose buffer had been moved; nothing is being written.
C12_Witness ==
    /\ last = "save"
    /\ editMode
    /\ editedText = <<" ">>
    /\ InRange(currentSubtitleIndex)
    /\ editedTime.startTime # EntryAt(currentSubtitleIndex).preciseStartTime
    /\ ~saving.set
    /\ subtitle = dbSubtitle

\* C13 (as claimed): Save is copy-on-write: no step that leaves a write of the
\* track pending (the start of Save, anything that runs before the write
\* completes) changes the track the page reads.
C13_SaveIsCopyOnWrite ==
    [][ saving'.set => subtitle' = subtitle ]_vars

\* C14 (as claimed): when the write of the track fails, the page's track is the
\* last good one, the one the store still holds, and the page keeps running.
C14_FailedSaveKeepsTrack ==
    [][ last' = "saveRejected"
            => (subtitle' = dbSubtitle' /\ lifecycle' = "mounted") ]_vars

\* r is txt without its leading and trailing spaces, and is not empty.
IsTrimOf(r, txt) ==
    /\ r # <<>>
    /\ r[1] # " "
    /\ r[Len(r)] # " "
    /\ \E i \in 1..Len(txt), j \in 1..Len(txt) :
            /\ i <= j
            /\ r = SubSeq(txt, i, j)
            /\ \A k \in (1..Len(txt)) \ (i..j) : txt[k] = " "

\* C15: a Save with a text that is not blank builds a track in which the entry
\* at currentSubtitleIndex has the buffer's start and end as its precise bounds
\* and the trimmed text as its text, and is otherwise the track as it was; when
\* the write resolves, that track is what the store and the page hold, editMode
\* is off and the buffer is cleared.
C15_SaveWritesBuffer ==
    /\ [][ (last' = "save" /\ ~Blank(editedText) /\ InRange(currentSubtitleIndex))
            => /\ saving'.set
               /\ Len(saving'.track) = Len(subtitle)
               /\ \A k \in 1..Len(subtitle) :
                    LET new == saving'.track[k]
                        old == subtitle[k]
                    IN  IF k = currentSubtitleIndex + 1
                          THEN /\ new.preciseStartTime = editedTime.startTime
                               /\ new.preciseEndTime = editedTime.endTime
                               /\ IsTrimOf(new.text, editedText)
                               /\ new.index = old.index
                               /\ new.startTime = old.startTime
                               /\ new.endTime = old.endTime
                          ELSE new = old ]_vars
    /\ [][ last' = "saveResolved"
            => /\ dbSubtitle' = saving.track
               /\ subtitle' = saving.track
               /\ ~editMode'
               /\ editedTime' = [startTime |-> 0, endTime |-> 0]
               /\ editedText' = <<>> ]_vars

\* C15 witness: a Save has resolved; the page and the store hold the same track,
\* one entry of which has a new text and a moved precise start; the session is
\* over.
C15_Witness ==
    /\ last = "saveResolved"
    /\ dbSubtitle = subtitle
    /\ ~editMode
    /\ editedText = <<>>
    /\ \E k \in 1..Len(subtitle) :
            /\ subtitle[k].text = <<"c">>
            /\ subtitle[k].preciseStartTime # Loaded[k].preciseStartTime

\* C16 (as claimed): the entries keep their number, order, index, startTime and
\* endTime, and the track changes only when a Save succeeds.
C16_OnlySuccessfulSaveChangesTrack ==
    /\ [](\E tr \in Tracks : Display(subtitle) = Display(tr))
    /\ [][ subtitle' # subtitle => last' = "saveResolved" ]_vars

\* C17: each offset adds (forward) or subtracts (backward) its delta to the
\* buffered value of the boundary it names and leaves the other boundary, so
\* that offsets add up from the value snapshotted at Enter.
C17_OffsetsCompound ==
    [][ /\ last' = "start+" =>
            \E d \in Offsets : editedTime' = [editedTime EXCEPT !.startTime = @ + d]
        /\ last' = "start-" =>
            \E d \in Offsets : editedTime' = [editedTime EXCEPT !.startTime = @ - d]
        /\ last' = "end+" =>
            \E d \in Offsets : editedTime' = [editedTime EXCEPT !.endTime = @ + d]
        /\ last' = "end-" =>
            \E d \in Offsets : editedTime' = [editedTime EXCEPT !.endTime = @ - d]
      ]_vars

\* C17 witness: a backward offset of the start has just brought the buffer back
\* to the value snapshotted at Enter, so it was applied to the value a forward
\* offset had left.
C17_Witness ==
    /\ last = "start-"
    /\ editMode
    /\ InRange(currentSubtitleIndex)
    /\ subtitle = Loaded
    /\ ~saving.set
    /\ editedTime.startTime = EntryAt(currentSubtitleIndex).preciseStartTime

----------------------------------------------------------------------------
(* Properties of the resolver (under SpecResolve; C19 under Spec) *)

\* The indices whose display interval [startTime, endTime) holds the playback time.
Holding ==
    { i \in 0..(Len(entries) - 1) :
        subtitle[i + 1].startTime <= currentTime /\ currentTime < subtitle[i + 1].endTime }

\* C18 (as claimed): the scan returns the one index whose display interval
\* holds the time, or -1 when there is none.
C18_ScanReturnsUnique ==
    LET r == findIndex(entries, currentTime)
    IN  IF Holding = {} THEN r = -1 ELSE Holding = {r}

\* C18 (amended): the scan returns the smallest index whose display interval
\* holds the time, or -1 when there is none; that index is the only one when
\* the display intervals of the track do not overlap.
C18_ScanReturnsFirst ==
    LET r == findIndex(entries, currentTime)
    IN  /\ IF Holding = {} THEN r = -1
           ELSE r \in Holding /\ \A i \in Holding : r <= i
        /\ (\A k \in 1..(Len(subtitle) - 1) :
                subtitle[k].endTime <= subtitle[k + 1].startTime)
            => (Holding = {} \/ Holding = {r})

\* C18 witness: a tick has just set the index from the scan at a time that two
\* display intervals hold; the index is the smaller of the two.
C18_Witness ==
    /\ last = "timeupdate"
    /\ Cardinality(Holding) >= 2
    /\ currentSubtitleIndex \in Holding
    /\ \E i \in Holding : currentSubtitleIndex < i
    /\ ~isSeeking

\* C19: a tick that finds the playback time in a gap leaves currentSubtitleIndex
\* as it was, and no tick sets it to -1.
C19_GapKeepsIndex ==
    /\ [][ (last' = "timeupdate" /\ Holding = {})
            => currentSubtitleIndex' = currentSubtitleIndex ]_vars
    /\ [][ (last' = "timeupdate" /\ currentSubtitleIndex # -1)
            => currentSubtitleIndex' # -1 ]_vars

\* C19 witness: in continuous mode, with no session and no scrub in the way, a
\* tick has run with the time in a gap, and the index is still that of an entry.
C19_Witness ==
    /\ last = "timeupdate"
    /\ playMode = OFF
    /\ ~BoundedMode
    /\ ~isSeeking
    /\ Holding = {}
    /\ currentTime < Duration
    /\ currentSubtitleIndex >= 0

\* The entries that start after, and before, the playback time.
StartsAfter  == { i \in 0..(Len(entries) - 1) : subtitle[i + 1].startTime > currentTime }
StartsBefore == { i \in 0..(Len(entries) - 1) : subtitle[i + 1].startTime < currentTime }

\* C20: on a track sorted by startTime, ties allowed, the binary search returns
\* for "next" the smallest index whose startTime is after the time, for
\* "previous" the largest index whose startTime is before it, and -1 when there
\* is none: always -1 on the empty track, 0 and -1 before the first entry, -1
\* and the last index after the last entry.
C20_DirectionalSearch ==
    LET next     == findSubtitleIndexByTime(entries, currentTime, "next")
        previous == findSubtitleIndexByTime(entries, currentTime, "previous")
    IN  /\ IF StartsAfter = {} THEN next = -1
           ELSE next \in StartsAfter /\ \A i \in StartsAfter : next <= i
        /\ IF StartsBefore = {} THEN previous = -1
           ELSE previous \in StartsBefore /\ \A i \in StartsBefore : previous >= i
        /\ Len(entries) = 0 => (next = -1 /\ previous = -1)
        /\ (Len(entries) > 0 /\ currentTime < subtitle[1].startTime)
            => (next = 0 /\ previous = -1)
        /\ (Len(entries) > 0 /\ currentTime > subtitle[Len(subtitle)].startTime)
            => (next = -1 /\ previous = Len(entries) - 1)

\* C20 witness: a skip to the next entry has just been resolved by the search
\* during a scrub, on a track of three entries with a tie: the index is the
\* first of two entries that start together, and the media has been sent there.
C20_Witness ==
    /\ last = "next"
    /\ Len(entries) = 3
    /\ currentSubtitleIndex = 1
    /\ subtitle[2].startTime = subtitle[3].startTime
    /\ subtitle[1].startTime < subtitle[2].startTime
    /\ currentTime = subtitle[2].startTime
    /\ seekEvt = "seeking"

\* C21: whenever the search finds both a previous and a next entry for the
\* playback time, the previous one starts before the time, the next one starts
\* at or after it, and the previous index is the smaller.
C21_SearchOrderConsistent ==
    LET next     == findSubtitleIndexByTime(entries, currentTime, "next")
        previous == findSubtitleIndexByTime(entries, currentTime, "previous")
    IN  (next # -1 /\ previous # -1)
            => /\ subtitle[previous + 1].startTime < currentTime
               /\ currentTime <= subtitle[next + 1].startTime
               /\ previous < next

\* C21 witness: a skip back resolved by the search has landed on the middle
\* entry of a track whose entries start at different times; from there the
\* search finds an entry on either side.
C21_Witness ==
    /\ last = "previous"
    /\ Len(entries) = 3
    /\ currentSubtitleIndex = 1
    /\ subtitle[1].startTime < subtitle[2].startTime
    /\ subtitle[2].startTime < subtitle[3].startTime
    /\ currentTime = subtitle[2].startTime
    /\ findSubtitleIndexByTime(entries, currentTime, "previous") = 0
    /\ findSubtitleIndexByTime(entries, currentTime, "next") = 2

----------------------------------------------------------------------------
(* Properties of navigation (under SpecSkip, SpecNav and SpecResolve) *)

\* A request made at the end of the track it asks to go past.
EndRequest(cb) ==
    \/ cb.kind = "previous" /\ cb.index < 1
    \/ cb.kind = "next" /\ cb.index = Len(entries) - 1

\* C22: with the position resolved, a frame whose requests were all made at the
\* track's ends (previous at an index below 1, next at the last index) changes
\* neither currentSubtitleIndex nor the media (time, paused, pending seek) nor
\* the play state.
C22_EndSkipIsNoOp ==
    [][ (/\ last' = "frame"
         /\ ~isSeeking
         /\ \A k \in 1..Len(rafQueue) : EndRequest(rafQueue[k]))
        => /\ currentSubtitleIndex' = currentSubtitleIndex
           /\ UNCHANGED mediaVars
           /\ isPlaying' = isPlaying
           /\ isSeeking' = isSeeking ]_vars

\* C22 witness: a frame has just run at index 0 with the position resolved and
\* the media paused at rest: nothing was sought and nothing plays.
C22_Witness ==
    /\ last = "frame"
    /\ ~isSeeking
    /\ currentSubtitleIndex = 0
    /\ Len(entries) > 1
    /\ seekEvt = "none"
    /\ paused

\* A request that its frame will carry out, given the flag at the frame.
SkipSucceeds(cb) ==
    /\ cb.kind \in {"previous", "next"}
    /\ IF isSeeking
         THEN findSubtitleIndexByTime(entries, currentTime, cb.kind) # -1
         ELSE ~EndRequest(cb)

\* C23 (as claimed): the frame that carries out a skip sets currentSubtitleIndex
\* to the target and, in the same step, sends the media to the start of that
\* entry and leaves it playing, with the seek still to be notified.
C23_SkipSetsIndexAndSeeks ==
    [][ (/\ last' = "frame"
         /\ Len(rafQueue) = 1
         /\ SkipSucceeds(rafQueue[1]))
        => /\ InRange(currentSubtitleIndex')
           /\ currentTime' = EntryAt(currentSubtitleIndex').startTime
           /\ seekEvt' = "seeking"
           /\ ~paused' ]_vars

----------------------------------------------------------------------------
(* The seeking flag *)

\* The step on which the element reports that a seek has ended
SeekEnds == seekEvt = "seeked" /\ seekEvt' = "none"

\* C24: the seeking flag is transient; the step that ends a seek (the seeked
\* event) leaves the flag cleared, so nothing stays suspended after a scrub.
C24_SeekEndClearsFlag ==
    [][ SeekEnds => ~isSeeking' ]_vars

\* C25: while the seeking flag is set the controller does nothing on a tick or
\* on a resume, whatever the mode or session: a tick leaves the media element as
\* it was, and a resume does to it exactly what play() alone does.
C25_SeekingSuspendsController ==
    [][ isSeeking =>
          /\ (last' = "timeupdate" => UNCHANGED mediaVars)
          /\ (last' = "toggle" /\ ~isPlaying =>
                 <<currentTime', paused', seekEvt'>> =
                     <<MediaPlay(Media).t, MediaPlay(Media).paused,
                       MediaPlay(Media).evt>>) ]_vars

\* A tick has run during a scrub, past the end of the current entry in a mode
\* that would otherwise have paused, and the media still plays.
C25_Witness ==
    /\ last = "timeupdate"
    /\ isSeeking
    /\ InRange(currentSubtitleIndex)
    /\ BoundedMode \/ playMode = SINGLE_PAUSE
    /\ ReachedEnd(currentTime, BoundEnd)
    /\ ~paused

----------------------------------------------------------------------------
(* Bounded playback of the sessions *)

----------------------------------------------------------------------------
(* Resume in the play modes *)

\* Play pressed while the page shows the media as paused
Resume == last' = "toggle" /\ ~isPlaying

\* C27: with a resolved current entry and no session, a resume in single-pause
\* mode seeks to the entry's preciseStartTime and plays, leaving the index as it
\* was; in continuous and single-loop mode a resume before the entry's precise
\* end plays from where the media is, without a seek.
C27_ResumeSeeksOnlyInSinglePause ==
    [][ (Resume /\ Resolved /\ ~BoundedMode) =>
          LET e == EntryAt(currentSubtitleIndex)
          IN  /\ (playMode = SINGLE_PAUSE =>
                    /\ currentTime' = e.preciseStartTime
                    /\ seekEvt' = "seeking"
                    /\ ~paused'
                    /\ currentSubtitleIndex' = currentSubtitleIndex)
              /\ (playMode \in {OFF, SINGLE_LOOP} /\ currentTime < e.preciseEndTime =>
                    /\ currentTime' = currentTime
                    /\ seekEvt' = seekEvt
                    /\ ~paused') ]_vars

\* A single-pause resume has sought to a precise start that is not the display
\* start the entry was entered at.
C27_Witness ==
    /\ last = "toggle"
    /\ playMode = SINGLE_PAUSE /\ ~BoundedMode
    /\ Resolved
    /\ EntryAt(currentSubtitleIndex).preciseStartTime
           # EntryAt(currentSubtitleIndex).startTime
    /\ currentTime = EntryAt(currentSubtitleIndex).preciseStartTime
    /\ seekEvt = "seeking"
    /\ ~paused

\* C28: in continuous mode with no session, a tick leaves the media element as
\* it was and sets the index to the containment scan's result whenever that is
\* not -1, and a resume plays from where the media is, without a pause or a seek.
C28_ContinuousFollowsScan ==
    [][ (playMode = OFF /\ ~BoundedMode) =>
          /\ (last' = "timeupdate" =>
                /\ UNCHANGED mediaVars
                /\ (findIndex(entries, currentTime) # -1 =>
                      currentSubtitleIndex' = findIndex(entries, currentTime)))
          /\ (Resume /\ currentTime # Duration =>
                /\ currentTime' = currentTime
                /\ seekEvt' = seekEvt
                /\ ~paused') ]_vars

\* Continuous playback has run into the second entry and a tick has moved the
\* index there, the media still playing.
C28_Witness ==
    /\ last = "timeupdate"
    /\ playMode = OFF /\ ~BoundedMode
    /\ currentSubtitleIndex = 1
    /\ findIndex(entries, currentTime) = 1
    /\ seekEvt = "none"
    /\ ~paused

----------------------------------------------------------------------------
(* Skips during a scrub *)

\* C29: a skip that runs while the seeking flag is set takes its target from the
\* playback time as it is then, not from the index: "previous" goes to the
\* largest index whose startTime is before the time, "next" to the smallest
\* whose startTime is after it; with no such entry nothing changes, and
\* otherwise the index is set, the flag cleared, and the media sought to the
\* target's start and played.
C29_SeekingSkipUsesLiveTime ==
    [][ last' \in {"previous", "next"} =>
          LET candidates == IF last' = "next" THEN StartsAfter ELSE StartsBefore
              target == IF last' = "next"
                          THEN CHOOSE i \in candidates : \A j \in candidates : i <= j
                          ELSE CHOOSE i \in candidates : \A j \in candidates : i >= j
          IN  IF candidates = {}
                THEN UNCHANGED <<currentSubtitleIndex, isSeeking, mediaVars>>
                ELSE /\ currentSubtitleIndex' = target
                     /\ ~isSeeking'
                     /\ currentTime' = EntryAt(target).startTime
                     /\ seekEvt' = "seeking"
                     /\ ~paused' ]_vars

\* A skip back during a scrub has landed on the middle entry of three, the
\* flag cleared and the media sent to that entry's start.
C29_Witness ==
    /\ last = "previous"
    /\ Len(entries) = 3
    /\ currentSubtitleIndex = 1
    /\ subtitle[1].startTime < subtitle[2].startTime
    /\ ~isSeeking
    /\ currentTime = subtitle[2].startTime
    /\ seekEvt = "seeking"
    /\ ~paused

----------------------------------------------------------------------------
(* Entering the edit session *)

\* C30: entering edit mode on an entry of the track copies the entry's precise
\* bounds and text into the buffer, sends the media to the entry's display
\* start and pauses it, makes the entry the current one and sets editMode; the
\* track, in the page and in the store, is left as it was.
C30_EnterEditSnapshots ==
    [][ last' = "enter" =>
          \E i \in 0..(Len(entries) - 1) :
              /\ editedTime' = [startTime |-> EntryAt(i).preciseStartTime,
                                endTime |-> EntryAt(i).preciseEndTime]
              /\ editedText' = EntryAt(i).text
              /\ currentTime' = EntryAt(i).startTime
              /\ seekEvt' = "seeking"
              /\ paused'
              /\ currentSubtitleIndex' = i
              /\ editMode'
              /\ UNCHANGED <<subtitle, dbSubtitle>> ]_vars

\* Edit mode has been entered on the calibrated second entry while the media
\* was playing: the media is paused at the display start, which is not the
\* precise start held in the buffer, and the page still shows it playing.
C30_Witness ==
    /\ last = "enter"
    /\ editMode
    /\ currentSubtitleIndex = 1
    /\ EntryAt(1).preciseStartTime # EntryAt(1).startTime
    /\ editedTime = [startTime |-> EntryAt(1).preciseStartTime,
                     endTime |-> EntryAt(1).preciseEndTime]
    /\ editedText = EntryAt(1).text
    /\ currentTime = EntryAt(1).startTime
    /\ paused
    /\ isPlaying

----------------------------------------------------------------------------
(* Leaving the sessions *)

\* C31: leaving edit mode, by cancel or after a successful save, clears the
\* buffer and editMode and leaves the track of the page, the index, the play
\* mode and recordingMode as they were; a cancel writes nothing to the store,
\* and no offset or text change touches the track, so that a cancel after any
\* number of them leaves the track as it was at Enter.
C31_ExitEditClearsBuffer ==
    [][ /\ last' \in {"exit", "saveResolved"} =>
            /\ ~editMode'
            /\ editedTime' = [startTime |-> 0, endTime |-> 0]
            /\ editedText' = <<>>
            /\ UNCHANGED <<subtitle, currentSubtitleIndex, playMode, recordingMode>>
        /\ last' \in {"exit", "start+", "start-", "end+", "end-", "text"} =>
            UNCHANGED <<subtitle, dbSubtitle>> ]_vars

\* An edit session on the second entry has been cancelled: the buffer is
\* cleared and the track is the one that was loaded, in the page and the store.
C31_Witness ==
    /\ last = "exit"
    /\ ~editMode
    /\ editedTime = [startTime |-> 0, endTime |-> 0]
    /\ editedText = <<>>
    /\ currentSubtitleIndex = 1
    /\ subtitle = Loaded
    /\ dbSubtitle = Loaded

\* C32: entering record mode on an entry of the track sends the media to the
\* entry's display start and pauses it, makes the entry the current one and
\* sets recordingMode; the track, the edit buffer, editMode and the play mode
\* are left as they were.
C32_EnterRecordSeeksAndPauses ==
    [][ last' = "enterRecord" =>
          \E i \in 0..(Len(entries) - 1) :
              /\ currentTime' = EntryAt(i).startTime
              /\ seekEvt' = "seeking"
              /\ paused'
              /\ currentSubtitleIndex' = i
              /\ recordingMode'
              /\ UNCHANGED <<subtitle, dbSubtitle, editMode, editedTime, editedText,
                             playMode>> ]_vars

\* Record mode has been entered on the second entry while the media was
\* playing and an edit buffer, moved by an offset, was open on the first.
C32_Witness ==
    /\ last = "enterRecord"
    /\ recordingMode
    /\ currentSubtitleIndex = 1
    /\ currentTime = EntryAt(1).startTime
    /\ paused
    /\ isPlaying
    /\ editMode
    /\ editedTime.endTime = EntryAt(0).preciseEndTime + 1

\* C33 (as claimed): leaving record mode clears recordingMode and changes
\* nothing else, the record session never changes the play mode, and the tick
\* that follows the exit already behaves as the play mode prescribes for the
\* current entry: continuous playback takes the index from the scan,
\* single-pause pauses at the entry's precise end, single-loop jumps back from it.
C33_ExitRecordRevertsToMode ==
    [][ /\ last' = "exitRecord" =>
            /\ ~recordingMode'
            /\ UNCHANGED <<subtitle, currentSubtitleIndex, playMode, isPlaying, editMode,
                           editedTime, editedText, isSeeking, rafQueue, saving,
                           dbSubtitle, mediaVars>>
        /\ last' = "enterRecord" => playMode' = playMode
        /\ (/\ last = "exitRecord" /\ last' = "timeupdate"
            /\ ~editMode /\ InRange(currentSubtitleIndex)) =>
            LET e == EntryAt(currentSubtitleIndex)
                found == findIndex(entries, currentTime)
            IN  /\ playMode = OFF =>
                    /\ UNCHANGED mediaVars
                    /\ found # -1 => currentSubtitleIndex' = found
                /\ playMode = SINGLE_PAUSE =>
                    /\ currentSubtitleIndex' = currentSubtitleIndex
                    /\ paused' = (paused \/ currentTime >= e.preciseEndTime)
                /\ playMode = SINGLE_LOOP =>
                    /\ currentSubtitleIndex' = currentSubtitleIndex
                    /\ currentTime >= e.preciseEndTime =>
                          currentTime' = e.preciseStartTime ]_vars

----------------------------------------------------------------------------
(* The entry an edit session is about *)

\* C34 (as claimed): from Enter-edit(i) until the exit the index stays i: no
\* step of an open edit session other than a new Enter changes
\* currentSubtitleIndex, so that a save writes the buffer to entry i.
C34_EditSessionKeepsEntry ==
    [][ (editMode /\ editMode' /\ last' # "enter")
        => currentSubtitleIndex' = currentSubtitleIndex ]_vars

----------------------------------------------------------------------------
(* Seeks the page makes itself *)

\* C35 (as claimed): when every seek is one the page made itself (loop-back,
\* resume, entering a session), no tick takes it for a manual scrub: with an
\* entry current and a single mode or a session active, the tick enforces the
\* mode on that entry and does not take the index from the containment scan.
C35_OwnSeekIsNoScrub ==
    [][ (/\ last' = "timeupdate"
         /\ InRange(currentSubtitleIndex)
         /\ HoldsIndex)
        => /\ currentSubtitleIndex' = currentSubtitleIndex
           /\ isSeeking' = isSeeking
           /\ ~BoundedMode /\ playMode = SINGLE_PAUSE =>
                 paused' = (paused \/ currentTime
                               >= EntryAt(currentSubtitleIndex).preciseEndTime) ]_vars

----------------------------------------------------------------------------
(* Index and seek target of a skip *)

\* C36 (as claimed): a frame whose skips moved the index or the media leaves
\* them in agreement: the index is inside the track and the playback time is
\* the startTime of the entry at that index, also when two requests ran in the
\* frame and when a tick changed the index after the request.
C36_SkipIndexMatchesSeek ==
    [][ (/\ last' = "frame"
         /\ <<currentSubtitleIndex', currentTime'>> # <<currentSubtitleIndex, currentTime>>)
        => /\ InRange(currentSubtitleIndex')
           /\ currentTime' = EntryAt(currentSubtitleIndex').startTime ]_vars

----------------------------------------------------------------------------
(* The tick that ends a scrub *)

\* C37: a tick that finds the seeking flag set and the playback time inside
\* the display interval of an entry makes that entry the current one and clears
\* the flag, in every play mode, without pausing or seeking the media; a tick
\* in a single mode that finds the flag clear holds the index and enforces the
\* mode against the precise end of the entry that is current then.
C37_ScrubResolvesBeforeMode ==
    [][ last' = "timeupdate" =>
          LET found == findIndex(entries, currentTime)
          IN  /\ (isSeeking /\ found # -1) =>
                    /\ currentSubtitleIndex' = found
                    /\ ~isSeeking'
                    /\ UNCHANGED mediaVars
              /\ (Resolved /\ ~BoundedMode /\ playMode \in {SINGLE_PAUSE, SINGLE_LOOP}) =>
                    LET e == EntryAt(currentSubtitleIndex)
                    IN  /\ currentSubtitleIndex' = currentSubtitleIndex
                        /\ (<<currentTime', paused'>> # <<currentTime, paused>>)
                              => currentTime >= e.preciseEndTime ]_vars

\* A scrub in a single mode has landed in the second entry and the tick after
\* its seeking event has made that entry current and cleared the flag, with
\* the seek still to be reported as ended and the media still playing.
C37_Witness ==
    /\ last = "timeupdate"
    /\ playMode \in {SINGLE_PAUSE, SINGLE_LOOP}
    /\ ~BoundedMode
    /\ ~isSeeking
    /\ seekEvt = "seeked"
    /\ currentSubtitleIndex = 1
    /\ findIndex(entries, currentTime) = 1
    /\ currentTime > EntryAt(1).startTime
    /\ ~paused

----------------------------------------------------------------------------
(* Bounded playback ends in a pause *)

\* Playback bounded by entry i is under way at time t: single-pause mode or a
\* session, the position resolved, no seek in flight, the media playing and the
\* page showing it so, and nothing but the clock and its ticks has acted last.
BoundedPlayback(i, t) ==
    /\ currentSubtitleIndex = i
    /\ currentTime = t
    /\ BoundedMode \/ playMode = SINGLE_PAUSE
    /\ ~isSeeking /\ seekEvt = "none"
    /\ ~paused /\ isPlaying
    /\ last \in {"timeupdate", "advance"}

\* The user or the element has acted since.
Disturbed == last \notin {"timeupdate", "advance"}

\* C38: bounded playback of a resolved entry with no scrub in progress, left to
\* the clock and its ticks, ends paused with the index unchanged, at or after
\* the end boundary and no more than one step of the clock past the later of
\* the boundary and the time it started from (the media's own end at the
\* latest); playback does not go on past the boundary.
C38_BoundedPlaybackPauses ==
    \A i \in 0..(MaxEntries - 1) : \A t \in Times :
        (InRange(i) /\ BoundedPlayback(i, t))
            ~> \/ Disturbed
               \/ /\ paused
                  /\ currentSubtitleIndex = i
                  /\ currentTime >= Min(Duration, BoundEnd)
                  /\ currentTime <= Min(Duration, Max(t, BoundEnd) + 1)

\* Single-pause playback of the first entry has been paused by a tick at the
\* entry's precise end, before the media's end, the page not yet told.
C38_Witness ==
    /\ last = "timeupdate"
    /\ playMode = SINGLE_PAUSE /\ ~BoundedMode
    /\ currentSubtitleIndex = 0
    /\ ~isSeeking /\ seekEvt = "none"
    /\ currentTime = EntryAt(0).preciseEndTime
    /\ currentTime < Duration
    /\ paused /\ isPlaying

----------------------------------------------------------------------------
(* The store after the quiet period *)

\* C39: while the page is open, once the index has changed at least once and
\* no write is pending any more (the quiet period has run out), the value last
\* written to the store is the current index; and every write carries the index
\* as it was just before the step that writes, so that the store never
\* receives an older index after a newer one.
C39_StoreCatchesUp ==
    /\ [](( /\ Mounted /\ cleanup.set /\ ~debounced.set )
            => /\ writes # <<>>
               /\ writes[Len(writes)] = currentSubtitleIndex)
    /\ [][ writes' # writes
            => /\ Len(writes') = Len(writes) + 1
               /\ \A k \in 1..Len(writes) : writes'[k] = writes[k]
               /\ writes'[Len(writes')] = currentSubtitleIndex ]_vars

\* The quiet period has run out on an open page after two changes of the
\* index: the store received the earlier value first and holds the current one.
C39_Witness ==
    /\ Mounted
    /\ last = "debounce"
    /\ cleanup.set /\ ~debounced.set
    /\ Len(writes) >= 2
    /\ writes[Len(writes)] = currentSubtitleIndex
    /\ writes[Len(writes) - 1] # currentSubtitleIndex

----------------------------------------------------------------------------
(* Before the first entry is resolved *)

\* C40: while the index is -1, in every play mode and with or without a
\* session, a tick leaves the media element as it was and sets the index to the
\* containment scan's result when there is one, and a resume plays from where
\* the media is without a pause or a seek.
C40_UnresolvedIsContinuous ==
    [][ currentSubtitleIndex = -1 =>
          /\ (last' = "timeupdate" =>
                /\ UNCHANGED mediaVars
                /\ currentSubtitleIndex' =
                      IF findIndex(entries, currentTime) # -1
                        THEN findIndex(entries, currentTime) ELSE -1)
          /\ (Resume /\ currentTime # Duration =>
                /\ UNCHANGED <<currentTime, seekEvt, currentSubtitleIndex>>
                /\ ~paused') ]_vars

\* Queued skips have brought the index back to -1 with a session open, and a
\* tick between two entries has left the media playing and the index at -1.
C40_Witness ==
    /\ last = "timeupdate"
    /\ currentSubtitleIndex = -1
    /\ BoundedMode
    /\ findIndex(entries, currentTime) = -1
    /\ ~isSeeking
    /\ ~paused
====
